---------------------------- MODULE Spec2Model ----------------------------
(***************************************************************************)
(* Model of entod_current_month_dashboard.py: a Streamlit script that is   *)
(* re-run from top to bottom on every user interaction.  It loads two      *)
(* spreadsheets (current period, last fiscal year), cleans them, and       *)
(* renders one of two pages: the Current Month dashboard (sidebar filters, *)
(* a KPI total, top-10 aggregations) or the YoY Sales Comparison.          *)
(*                                                                         *)
(* Data representation.  A cell of a DataFrame is a record                 *)
(*     [k |-> kind, s |-> text, n |-> number]                              *)
(* with kind "s" (a Python str; s is its sequence of character codes),     *)
(* "n" (a number), "t" (a Timestamp; n is year*10000 + month*100 + day),   *)
(* "nan" (NaN / NaT / an empty spreadsheet cell) or "none" (Python None).  *)
(* A DataFrame is [cols |-> sequence of column names, rows |-> sequence of *)
(* rows], a row being a function from the column names to cells.           *)
(* pandas semantics modelled are those of the pandas 1.x/2.x line the      *)
(* script was written for (object-dtype strings, astype(str) turning NaN   *)
(* into the text "nan", groupby dropping NaN keys and sorting the keys).   *)
(***************************************************************************)
EXTENDS Integers, Sequences, FiniteSets, TLC

VARIABLES
    exists,      \* which of the two input files are on disk
    files,       \* the contents of the two input files (raw DataFrames)
    cache,       \* st.cache_data: the file paths load_data has results for
    page,        \* st.session_state.page
    widgets,     \* the page whose sidebar widgets hold state in the session
    pc,          \* position of the current script run
    df_current,  \* the run's df_current
    df_last,     \* the run's df_last
    view,        \* what the current run has computed and rendered so far
    arg,         \* arguments of a helper applied on its own
    ret          \* its result

vars == <<exists, files, cache, page, widgets, pc, df_current, df_last, view, arg, ret>>

---------------------------------------------------------------------------
(* Bounds of the model *)

\* rows of a table drawn for the filter helper
MaxRows == 2
\* rows drawn freely in front of the block of distinct groups (aggregation)
MaxAggRows == 2
\* size of the block of further, distinct groups in an aggregation input
MaxPad == 10
\* rows of each input file in the dashboard runs
MaxFileRows == 2

(* Program constants *)

\* .head(10)
TopN == 10

---------------------------------------------------------------------------
(* Cells *)

NaN == [k |-> "nan", s |-> <<>>, n |-> 0]
None == [k |-> "none", s |-> <<>>, n |-> 0]
Str(s) == [k |-> "s", s |-> s, n |-> 0]
Num(n) == [k |-> "n", s |-> <<>>, n |-> n]
Ts(y, m, d) == [k |-> "t", s |-> <<>>, n |-> y * 10000 + m * 100 + d]

\* the text "ALL"
ALL == Str(<<65, 76, 76>>)

\* pandas isna / notna
isna(c) == c.k = "nan"

Range(f) == {f[i] : i \in DOMAIN f}

\* Python's ordering of str: lexicographic on the character codes
RECURSIVE SeqLess(_, _)
SeqLess(a, b) ==
    IF b = <<>> THEN FALSE
    ELSE IF a = <<>> THEN TRUE
    ELSE IF Head(a) # Head(b) THEN Head(a) < Head(b)
    ELSE SeqLess(Tail(a), Tail(b))

\* the order sorted() and groupby use on the values of one column
CellLess(a, b) ==
    IF a.k = "s" /\ b.k = "s" THEN SeqLess(a.s, b.s)
    ELSE IF a.k = "s" THEN FALSE
    ELSE IF b.k = "s" THEN TRUE
    ELSE a.n < b.n

\* sorted(S): the ascending sequence of the members of S
RECURSIVE sorted(_)
sorted(S) ==
    IF S = {} THEN <<>>
    ELSE LET m == CHOOSE x \in S : \A y \in S \ {x} : CellLess(x, y)
         IN <<m>> \o sorted(S \ {m})

---------------------------------------------------------------------------
(* Text conversions *)

\* decimal digits of a natural number
RECURSIVE Digits(_)
Digits(n) == IF n < 10 THEN <<48 + n>> ELSE Digits(n \div 10) \o <<48 + (n % 10)>>

Pad2(n) == IF n < 10 THEN <<48>> \o Digits(n) ELSE Digits(n)

RECURSIVE LStrip(_)
LStrip(s) == IF s # <<>> /\ Head(s) = 32 THEN LStrip(Tail(s)) ELSE s

RECURSIVE RStrip(_)
RStrip(s) ==
    IF s # <<>> /\ s[Len(s)] = 32 THEN RStrip(SubSeq(s, 1, Len(s) - 1)) ELSE s

\* str.strip()
strip(s) == LStrip(RStrip(s))

\* str(value), as astype(str) applies it to each cell of an object column;
\* a Timestamp prints as YYYY-MM-DD (its 00:00:00 time part is left out)
astype_str(c) ==
    CASE c.k = "s" -> c.s
      [] c.k = "n" -> Digits(c.n)
      [] c.k = "t" -> Digits(c.n \div 10000) \o <<45>> \o Pad2((c.n \div 100) % 100)
                      \o <<45>> \o Pad2(c.n % 100)
      [] OTHER -> <<110, 97, 110>>

IsDigit(ch) == ch >= 48 /\ ch <= 57

DaysIn(y, m) ==
    IF m \in {4, 6, 9, 11} THEN 30
    ELSE IF m # 2 THEN 31
    ELSE IF (y % 4 = 0 /\ y % 100 # 0) \/ y % 400 = 0 THEN 29
    ELSE 28

\* parse of a text YYYY-MM-DD; anything else is not a date
ParseDate(s) ==
    IF /\ Len(s) = 10
       /\ s[5] = 45 /\ s[8] = 45
       /\ \A i \in {1, 2, 3, 4, 6, 7, 9, 10} : IsDigit(s[i])
    THEN LET y == (s[1] - 48) * 1000 + (s[2] - 48) * 100 + (s[3] - 48) * 10 + (s[4] - 48)
             m == (s[6] - 48) * 10 + (s[7] - 48)
             d == (s[9] - 48) * 10 + (s[10] - 48)
         IN IF m >= 1 /\ m <= 12 /\ d >= 1 /\ d <= DaysIn(y, m)
            THEN Ts(y, m, d) ELSE NaN
    ELSE NaN

\* pd.to_datetime(value, errors="coerce") on one cell
to_datetime(c) ==
    CASE c.k = "t" -> c
      [] c.k = "s" -> ParseDate(c.s)
      [] OTHER -> NaN

MonthName ==
    << <<74,97,110,117,97,114,121>>,
       <<70,101,98,114,117,97,114,121>>,
       <<77,97,114,99,104>>,
       <<65,112,114,105,108>>,
       <<77,97,121>>,
       <<74,117,110,101>>,
       <<74,117,108,121>>,
       <<65,117,103,117,115,116>>,
       <<83,101,112,116,101,109,98,101,114>>,
       <<79,99,116,111,98,101,114>>,
       <<78,111,118,101,109,98,101,114>>,
       <<68,101,99,101,109,98,101,114>> >>

\* a strftime that prints NaT as the text "NaT"
strftime_nat_text(c) ==
    IF c.k = "t"
    THEN Str(MonthName[(c.n \div 100) % 100] \o <<45>> \o Digits(c.n \div 10000))
    ELSE Str(<<78, 97, 84>>)

\* .dt.strftime("%B-%Y") on one cell of a datetime column: NaT gives NaN
strftime(c) ==
    IF c.k = "t"
    THEN Str(MonthName[(c.n \div 100) % 100] \o <<45>> \o Digits(c.n \div 10000))
    ELSE NaN

---------------------------------------------------------------------------
(* DataFrames *)

Column(df, col) == [i \in 1..Len(df.rows) |-> df.rows[i][col]]

HasCol(df, col) == col \in Range(df.cols)

\* the dtype pandas gives a column read from a spreadsheet
dtype(df, col) ==
    IF \E i \in 1..Len(df.rows) : df.rows[i][col].k = "s" THEN "object"
    ELSE IF \E i \in 1..Len(df.rows) : df.rows[i][col].k = "t" THEN "datetime64"
    ELSE "float64"

\* Series.sum(): NaN is skipped
RECURSIVE SumCells(_)
SumCells(cs) ==
    IF cs = <<>> THEN 0
    ELSE (IF Head(cs).k = "n" THEN Head(cs).n ELSE 0) + SumCells(Tail(cs))

\* df[col].sum()
SeriesSum(df, col) == SumCells(Column(df, col))


EmptyFrame == [cols |-> <<>>, rows |-> <<>>]

\* for col in df_.select_dtypes(include=["object"]):
\*     df_[col] = df_[col].astype(str).str.strip()
clean_strings(df) ==
    [cols |-> df.cols,
     rows |-> [i \in 1..Len(df.rows) |->
                 [c \in Range(df.cols) |->
                    IF dtype(df, c) = "object"
                    THEN Str(strip(astype_str(df.rows[i][c])))
                    ELSE df.rows[i][c]]]]

\* df_last["Month"] = pd.to_datetime(df_last["Month"], errors="coerce")
convert_month(df) ==
    [cols |-> df.cols,
     rows |-> [i \in 1..Len(df.rows) |->
                 [c \in Range(df.cols) |->
                    IF c = "Month" THEN to_datetime(df.rows[i][c])
                    ELSE df.rows[i][c]]]]

---------------------------------------------------------------------------
(* Helper functions of the script *)

Reserved == {"Sales Qty", "Sales Amt", "Month"}

\* the columns create_sidebar_filters shows a multiselect for, in column order
filter_columns(df, exclude_cols) ==
    SelectSeq(df.cols, LAMBDA c : c \notin exclude_cols /\ c \notin Reserved)

\* sorted(df[col].dropna().unique())
unique_sorted(df, col) ==
    sorted({c \in Range(Column(df, col)) : ~isna(c)})

\* options = ["ALL"] + sorted(df[col].dropna().unique())
options(df, col) == <<ALL>> \o unique_sorted(df, col)

\* what the user can have selected in the multiselects: per shown column a
\* set of its options
Selections(df, exclude_cols) ==
    LET shown == Range(filter_columns(df, exclude_cols))
        any == UNION {Range(options(df, c)) : c \in shown}
    IN {sel \in [shown -> SUBSET any] :
          \A c \in shown : sel[c] \subseteq Range(options(df, c))}

\* the filters dict, as the sequence of its (column, selected) items in
\* insertion order: a column is entered only when "ALL" is not selected
RECURSIVE filters_of(_, _)
filters_of(cols, selected) ==
    IF cols = <<>> THEN <<>>
    ELSE (IF ALL \notin selected[Head(cols)]
          THEN << <<Head(cols), selected[Head(cols)]>> >> ELSE <<>>)
         \o filters_of(Tail(cols), selected)

\* the same with the test  if selected != ["ALL"]
RECURSIVE filters_of_all_alone(_, _)
filters_of_all_alone(cols, selected) ==
    IF cols = <<>> THEN <<>>
    ELSE (IF selected[Head(cols)] # {ALL}
          THEN << <<Head(cols), selected[Head(cols)]>> >> ELSE <<>>)
         \o filters_of_all_alone(Tail(cols), selected)

create_sidebar_filters_all_alone(df, exclude_cols, selected) ==
    filters_of_all_alone(filter_columns(df, exclude_cols), selected)

\* create_sidebar_filters(df, exclude_cols), the user's selections given
create_sidebar_filters(df, exclude_cols, selected) ==
    filters_of(filter_columns(df, exclude_cols), selected)

\* Series.isin(sel)
isin(c, sel) == c \in sel

\* filtered[filtered[col].isin(sel)]
select_isin(df, col, sel) ==
    [cols |-> df.cols, rows |-> SelectSeq(df.rows, LAMBDA r : isin(r[col], sel))]

\* a loop that returns after the first item
filter_loop_first_only(filtered, items) ==
    IF items = <<>> THEN filtered
    ELSE select_isin(filtered, Head(items)[1], Head(items)[2])

\* the loop of apply_filters over filters.items()
RECURSIVE filter_loop(_, _)
filter_loop(filtered, items) ==
    IF items = <<>> THEN filtered
    ELSE filter_loop(select_isin(filtered, Head(items)[1], Head(items)[2]), Tail(items))

\* apply_filters(df, filters): filtered[col] raises KeyError for a column
\* the frame does not have
apply_filters(df, filters) ==
    IF \A i \in 1..Len(filters) : HasCol(df, filters[i][1])
    THEN [raised |-> FALSE, df |-> filter_loop(df, filters)]
    ELSE [raised |-> TRUE, df |-> EmptyFrame]

---------------------------------------------------------------------------
(* Top-10 aggregation *)

\* df.groupby(group)[metric].sum().reset_index(): one entry per distinct
\* non-NaN key (groupby drops NaN keys), in ascending key order (sort=True)
groupby_sum(df, group, metric) ==
    LET keys == unique_sorted(df, group)
    IN [i \in 1..Len(keys) |->
          [key |-> keys[i],
           total |-> SumCells(Column(select_isin(df, group, {keys[i]}), metric))]]

\* the orders in which .sort_values(metric, ascending=False) can leave the
\* entries of S: totals descending; the default kind="quicksort" is not a
\* stable sort, so entries with equal totals can come out in any order
RECURSIVE descending_orders(_)
descending_orders(S) ==
    IF S = {} THEN {<<>>}
    ELSE LET top == {x \in S : \A y \in S : y.total <= x.total}
         IN UNION {{<<x>> \o rest : rest \in descending_orders(S \ {x})} : x \in top}

\* the same sort with ascending=True
RECURSIVE ascending_orders(_)
ascending_orders(S) ==
    IF S = {} THEN {<<>>}
    ELSE LET low == {x \in S : \A y \in S : x.total <= y.total}
         IN UNION {{<<x>> \o rest : rest \in ascending_orders(S \ {x})} : x \in low}

sort_values_asc(agg) == ascending_orders(Range(agg))

sort_values_desc(agg) == descending_orders(Range(agg))

\* a head that keeps one entry too many
head_one_more(agg, n) == SubSeq(agg, 1, IF Len(agg) < n + 1 THEN Len(agg) ELSE n + 1)

\* .head(n)
head(agg, n) == SubSeq(agg, 1, IF Len(agg) < n THEN Len(agg) ELSE n)

\* the values state_agg / div_agg can take in one run
top_n(df, group, metric) ==
    {head(s, TopN) : s \in sort_values_desc(groupby_sum(df, group, metric))}


---------------------------------------------------------------------------
(* Input families *)

\* the value of a variable a specification does not use
Unused == <<>>

\* all sequences over S of length at most n
SeqsUpTo(S, n) == UNION {[1..k -> S] : k \in 0..n}

\* the rows over the columns DOMAIN dom whose cell in column c is in dom[c]
RowsOf(dom) ==
    {r \in [DOMAIN dom -> UNION Range(dom)] : \A c \in DOMAIN dom : r[c] \in dom[c]}

\* the frames with columns cols of at most n rows drawn from Row
Frames(cols, Row, n) == {[cols |-> cols, rows |-> r] : r \in SeqsUpTo(Row, n)}

\* texts "a", "b", " a", " z", "x"
TxtA == Str(<<97>>)
TxtB == Str(<<98>>)
TxtPadA == Str(<<32, 97>>)
TxtPadZ == Str(<<32, 122>>)
TxtX == Str(<<120>>)

---------------------------------------------------------------------------
(* apply_filters applied on its own to any frame and any filters dict *)

FilterFrames ==
    Frames(<<"State Name", "Division Name">>,
           RowsOf(("State Name" :> {TxtA, TxtB, NaN}) @@ ("Division Name" :> {TxtX, Num(1)})),
           MaxRows)

\* filters dicts of at most two columns, one of them ("Zone") not a column
\* of the frames
FilterDicts ==
    LET Cols == {"State Name", "Division Name", "Zone"}
        Sel == SUBSET {TxtA, TxtB, TxtX}
    IN {<<>>}
       \cup {<< <<c, s>> >> : c \in Cols, s \in Sel}
       \cup {f \in {<< <<c, s>>, <<d, u>> >> : c \in Cols, d \in Cols, s \in Sel, u \in Sel} :
                f[1][1] # f[2][1]}

InitFilter ==
    /\ \E df \in FilterFrames : \E f \in FilterDicts : arg = [df |-> df, filters |-> f]
    /\ ret = Unused
    /\ pc = "call"
    /\ exists = Unused /\ files = Unused /\ cache = Unused /\ page = Unused
    /\ widgets = Unused
    /\ df_current = Unused /\ df_last = Unused /\ view = Unused

ApplyFilters ==
    /\ pc = "call"
    /\ ret' = apply_filters(arg.df, arg.filters)
    /\ pc' = "return"
    /\ UNCHANGED <<exists, files, cache, page, widgets, df_current, df_last, view, arg>>

NextFilter == ApplyFilters

SpecFilter == InitFilter /\ [][NextFilter]_vars

---------------------------------------------------------------------------
(* The top-10 aggregation applied on its own to a cleaned frame *)

\* the block of n further groups "b", "c", ... with the totals 1, 2, ...
PadRows(group, metric, n) ==
    [i \in 1..n |-> (group :> Str(<<97 + i>>)) @@ (metric :> Num(i))]

\* the rows drawn freely: keys "a", " z", a number, an empty cell; values
\* 1, 2, an empty cell
AggFreeRows(group, metric) ==
    RowsOf((group :> {TxtA, TxtPadZ, Num(7), NaN}) @@ (metric :> {Num(1), Num(2), NaN}))

\* the frame is as the loader leaves it: at most MaxAggRows rows drawn
\* freely, followed by a block of 0..MaxPad distinct groups, then cleaned
InitAgg ==
    /\ \E g \in {"State Name", "Division Name"} :
       \E n \in 0..MaxPad :
       \E free \in SeqsUpTo(AggFreeRows(g, "Sales Qty"), MaxAggRows) :
          arg = [df |-> clean_strings([cols |-> <<g, "Sales Qty">>,
                                       rows |-> free \o PadRows(g, "Sales Qty", n)]),
                 group |-> g, metric |-> "Sales Qty"]
    /\ ret = Unused
    /\ pc = "call"
    /\ exists = Unused /\ files = Unused /\ cache = Unused /\ page = Unused
    /\ widgets = Unused
    /\ df_current = Unused /\ df_last = Unused /\ view = Unused

\* state_agg = ( ... ) / div_agg = ( ... ); groups keeps the value of the
\* chain before .sort_values(...).head(10)
Aggregate ==
    /\ pc = "call"
    /\ \E agg \in top_n(arg.df, arg.group, arg.metric) :
          ret' = [groups |-> groupby_sum(arg.df, arg.group, arg.metric), agg |-> agg]
    /\ pc' = "return"
    /\ UNCHANGED <<exists, files, cache, page, widgets, df_current, df_last, view, arg>>

NextAgg == Aggregate

SpecAgg == InitAgg /\ [][NextAgg]_vars

---------------------------------------------------------------------------
(* Computations of the two pages *)

\* metric_options = [col for col in ["Sales Qty", "Sales Amt"] if col in df_current.columns]
metric_options(df) == SelectSeq(<<"Sales Qty", "Sales Amt">>, LAMBDA c : HasCol(df, c))

\* the option lists of the multiselects create_sidebar_filters shows
shown_options(df, exclude_cols) ==
    [c \in Range(filter_columns(df, exclude_cols)) |-> options(df, c)]

\* sorted(df_last["Month"].dt.strftime("%B-%Y").dropna().unique())
month_opts_of(df) ==
    sorted({m \in {strftime(c) : c \in Range(Column(df, "Month"))} : ~isna(m)})

\* Series == value, elementwise: NaN equals nothing, a str equals no None
series_eq(c, x) == ~isna(c) /\ ~isna(x) /\ c = x

\* a month restriction that keeps every row
restrict_month_keep_all(df, selected_month) == df

\* filtered_last[filtered_last["Month"].dt.strftime("%B-%Y") == selected_month]
restrict_month(df, selected_month) ==
    [cols |-> df.cols,
     rows |-> SelectSeq(df.rows, LAMBDA r : series_eq(strftime(r["Month"]), selected_month))]

---------------------------------------------------------------------------
(* The script, one run per interaction *)

CurrentPage == "Current Month Dashboard"
YoYPage == "YoY Sales Comparison"

\* Widget state lives in the session only for the widgets the last run
\* rendered: the multiselects (keys filter_<column>) are shared by the two
\* pages, the metric selectbox belongs to the Current Month page and the
\* month selectbox to the YoY page.

\* st.selectbox(label, options) on page p: None when there is no option, the
\* first option when the last run did not render it, else the user's choice
selectbox(opts, none, p) ==
    IF opts = <<>> THEN {none}
    ELSE IF widgets # p THEN {Head(opts)}
    ELSE Range(opts)

\* the values of the multiselects: default=["ALL"] when the last run
\* rendered none, else the user's choices
multiselects(df, exclude_cols) ==
    IF widgets = "none"
    THEN {[c \in Range(filter_columns(df, exclude_cols)) |-> {ALL}]}
    ELSE Selections(df, exclude_cols)

\* nothing computed or rendered yet
BlankView ==
    [loaded |-> FALSE, errors |-> {}, sections |-> {}, exception |-> "none",
     options |-> <<>>, selected |-> <<>>, filters |-> <<>>, built |-> FALSE,
     metric |-> "None", filtered |-> EmptyFrame, total_value |-> 0,
     state_agg |-> <<>>, div_agg |-> <<>>,
     month_opts |-> <<>>, selected_month |-> None, filtered_last |-> EmptyFrame,
     curr_qty |-> 0, last_qty |-> 0, diff_qty |-> 0,
     curr_amt |-> 0, last_amt |-> 0, diff_amt |-> 0]

RunOver == pc \in {"idle", "done", "stopped", "crashed"}

\* A user interaction (or the first page load) starts a run of the script:
\* the navigation buttons set st.session_state.page.  The files on disk are
\* what they are at that moment.
Rerun(click, on_disk) ==
    /\ RunOver
    /\ page = "unset" => click = "none"
    /\ exists' = on_disk
    /\ page' = CASE click = "current" -> CurrentPage
                 [] click = "yoy" -> YoYPage
                 [] OTHER -> IF page = "unset" THEN CurrentPage ELSE page
    /\ view' = BlankView
    /\ df_current' = EmptyFrame /\ df_last' = EmptyFrame
    /\ pc' = "files"
    /\ UNCHANGED <<files, cache, widgets, arg, ret>>

\* a file check that reports the missing file and goes on
CheckFilesNoStop ==
    /\ pc = "files"
    /\ IF ~exists.current \/ ~exists.last
       THEN view' = [view EXCEPT !.errors = @ \cup {"files not found"}]
       ELSE UNCHANGED view
    /\ pc' = "load"
    /\ UNCHANGED <<exists, files, cache, page, widgets, df_current, df_last, arg, ret>>

\* if not os.path.exists(current_file) or not os.path.exists(last_file): ... st.stop()
CheckFiles ==
    /\ pc = "files"
    /\ IF ~exists.current \/ ~exists.last
       THEN /\ view' = [view EXCEPT !.errors = @ \cup {"files not found"}]
            /\ pc' = "stopped"
            /\ widgets' = "none"
       ELSE /\ pc' = "load"
            /\ UNCHANGED <<view, widgets>>
    /\ UNCHANGED <<exists, files, cache, page, df_current, df_last, arg, ret>>

\* df_current = load_data(current_file); df_last = load_data(last_file),
\* each served from st.cache_data once it has been read, and the cleaning
\* of the string columns of both
LoadData ==
    /\ pc = "load"
    /\ cache' = cache \cup {"current", "last"}
    /\ df_current' = clean_strings(files.current)
    /\ df_last' = clean_strings(files.last)
    /\ view' = [view EXCEPT !.loaded = TRUE]
    /\ pc' = "month"
    /\ UNCHANGED <<exists, files, page, widgets, arg, ret>>

\* if "Month" not in df_last.columns: ... st.stop()
\* df_last["Month"] = pd.to_datetime(df_last["Month"], errors="coerce")
CheckMonth ==
    /\ pc = "month"
    /\ IF ~HasCol(df_last, "Month")
       THEN /\ view' = [view EXCEPT !.errors = @ \cup {"Month not found"}]
            /\ pc' = "stopped"
            /\ widgets' = "none"
            /\ UNCHANGED df_last
       ELSE /\ df_last' = convert_month(df_last)
            /\ pc' = "header"
            /\ UNCHANGED <<view, widgets>>
    /\ UNCHANGED <<exists, files, cache, page, df_current, arg, ret>>

\* show_header() and the notice
ShowHeader ==
    /\ pc = "header"
    /\ view' = [view EXCEPT !.sections = @ \cup {"header", "notice"}]
    /\ pc' = "page"
    /\ UNCHANGED <<exists, files, cache, page, widgets, df_current, df_last, arg, ret>>

\* if page == "Current Month Dashboard": the whole page, for what the user
\* has selected in the sidebar
RenderCurrent ==
    /\ pc = "page" /\ page = CurrentPage
    /\ \E selected \in multiselects(df_current, {}) :
       \E selected_metric \in selectbox(metric_options(df_current), "None", CurrentPage) :
          LET filters == create_sidebar_filters(df_current, {}, selected)
              filtered_df == apply_filters(df_current, filters).df
              has_metric == HasCol(filtered_df, selected_metric)
              has_state == HasCol(filtered_df, "State Name") /\ has_metric
              has_div == HasCol(filtered_df, "Division Name") /\ has_metric
          IN \E state_agg \in (IF has_state
                               THEN top_n(filtered_df, "State Name", selected_metric)
                               ELSE {<<>>}) :
             \E div_agg \in (IF has_div
                             THEN top_n(filtered_df, "Division Name", selected_metric)
                             ELSE {<<>>}) :
                view' = [view EXCEPT
                    !.options = shown_options(df_current, {}),
                    !.selected = selected,
                    !.filters = filters,
                    !.built = TRUE,
                    !.metric = selected_metric,
                    !.filtered = filtered_df,
                    !.total_value = IF has_metric THEN SeriesSum(filtered_df, selected_metric) ELSE 0,
                    !.errors = IF has_metric THEN @ ELSE @ \cup {"metric not found"},
                    !.state_agg = state_agg,
                    !.div_agg = div_agg,
                    !.sections = @ \cup {"page header", "table", "download"}
                                   \cup (IF has_metric THEN {"total"} ELSE {})
                                   \cup (IF has_state THEN {"state chart"} ELSE {})
                                   \cup (IF has_div THEN {"division chart"} ELSE {})]
    /\ pc' = "done"
    /\ widgets' = CurrentPage
    /\ UNCHANGED <<exists, files, cache, page, df_current, df_last, arg, ret>>

\* elif page == "YoY Sales Comparison": the whole page; a KeyError (a filter
\* column df_last does not have, a metric column either frame does not
\* have) ends the run where it is raised
RenderYoY ==
    /\ pc = "page" /\ page = YoYPage
    /\ \E selected_month \in selectbox(month_opts_of(df_last), None, YoYPage) :
       \E selected \in multiselects(df_current, Reserved) :
          LET filters == create_sidebar_filters(df_current, Reserved, selected)
              filtered_current == apply_filters(df_current, filters).df
              last_applied == apply_filters(df_last, filters)
              filtered_last == restrict_month(last_applied.df, selected_month)
              raised == \/ last_applied.raised
                        \/ \E m \in {"Sales Qty", "Sales Amt"} :
                              ~HasCol(df_current, m) \/ ~HasCol(df_last, m)
              shown == [view EXCEPT
                    !.month_opts = month_opts_of(df_last),
                    !.selected_month = selected_month,
                    !.options = shown_options(df_current, Reserved),
                    !.selected = selected,
                    !.filters = filters,
                    !.built = TRUE,
                    !.filtered = filtered_current,
                    !.sections = @ \cup {"page header"}]
          IN IF raised
             THEN /\ view' = [shown EXCEPT !.exception = "KeyError"]
                  /\ pc' = "crashed"
             ELSE LET curr_qty == SeriesSum(filtered_current, "Sales Qty")
                      last_qty == SeriesSum(filtered_last, "Sales Qty")
                      curr_amt == SeriesSum(filtered_current, "Sales Amt")
                      last_amt == SeriesSum(filtered_last, "Sales Amt")
                  IN /\ view' = [shown EXCEPT
                            !.filtered_last = filtered_last,
                            !.curr_qty = curr_qty,
                            !.last_qty = last_qty,
                            !.diff_qty = curr_qty - last_qty,
                            !.curr_amt = curr_amt,
                            !.last_amt = last_amt,
                            !.diff_amt = curr_amt - last_amt,
                            !.sections = @ \cup {"quantity cards", "amount cards",
                                                 "current data", "last FY data"}]
                     /\ pc' = "done"
    /\ widgets' = YoYPage
    /\ UNCHANGED <<exists, files, cache, page, df_current, df_last, arg, ret>>

---------------------------------------------------------------------------
(* The dashboard on bounded input files *)

\* the frame with only the columns cols of df
Project(df, cols) ==
    [cols |-> cols,
     rows |-> [i \in 1..Len(df.rows) |-> [c \in Range(cols) |-> df.rows[i][c]]]]

\* all subsequences of cols that keep every column outside optional
Schemas(cols, optional) ==
    {SelectSeq(cols, LAMBDA c : c \notin drop) : drop \in SUBSET optional}

\* texts "2024-09-01" (a date) and "2024-13-01" (no date)
TxtSep1 == Str(<<50, 48, 50, 52, 45, 48, 57, 45, 48, 49>>)
TxtMonth13 == Str(<<50, 48, 50, 52, 45, 49, 51, 45, 48, 49>>)

CurRow(state, div, qty, amt) ==
    ("State Name" :> state) @@ ("Division Name" :> div)
    @@ ("Sales Qty" :> qty) @@ ("Sales Amt" :> amt)

LastRow(state, div, month, qty, amt) == CurRow(state, div, qty, amt) @@ ("Month" :> month)

\* one fixed pair of well-formed files
RefCurrent ==
    [cols |-> <<"State Name", "Division Name", "Sales Qty", "Sales Amt">>,
     rows |-> <<CurRow(TxtA, TxtX, Num(1), Num(5)), CurRow(TxtB, TxtX, Num(2), Num(3))>>]

RefLast ==
    [cols |-> <<"State Name", "Division Name", "Month", "Sales Qty", "Sales Amt">>,
     rows |-> <<LastRow(TxtA, TxtX, Ts(2024, 9, 15), Num(1), Num(2)),
                LastRow(TxtB, TxtX, Ts(2024, 10, 1), Num(3), Num(4))>>]

DataCols == <<"State Name", "Sales Qty", "Sales Amt">>
DataColsLast == <<"State Name", "Month", "Sales Qty", "Sales Amt">>

\* current files of at most MaxFileRows rows: the state a text (with or
\* without padding), a number or empty; the quantity possibly empty
CurrentFiles ==
    Frames(DataCols,
           {("State Name" :> s) @@ ("Sales Qty" :> m[1]) @@ ("Sales Amt" :> m[2]) :
               s \in {TxtA, TxtPadA, TxtB, Num(7), NaN},
               m \in {<<Num(1), Num(5)>>, <<NaN, Num(2)>>}},
           MaxFileRows)

\* last-FY files of at most MaxFileRows rows: the month a date cell, a text
\* that is a date, a text that is none, or empty
LastFiles ==
    Frames(DataColsLast,
           {("State Name" :> s[1]) @@ ("Month" :> mo)
            @@ ("Sales Qty" :> s[2]) @@ ("Sales Amt" :> s[3]) :
               s \in {<<TxtA, Num(1), Num(5)>>, <<TxtB, Num(2), Num(3)>>},
               mo \in {Ts(2024, 9, 15), TxtSep1, Ts(2024, 10, 1), TxtMonth13, NaN}},
           MaxFileRows)

\* the file pairs of the model: either file varied against the fixed other
\* one, and the fixed pair with columns left out or (a "Month" column in the
\* current file) added
InitFiles ==
    \/ \E c \in CurrentFiles :
          files = [current |-> c, last |-> Project(RefLast, DataColsLast)]
    \/ \E l \in LastFiles :
          files = [current |-> Project(RefCurrent, DataCols), last |-> l]
    \/ \E c \in Schemas(RefLast.cols, {"Division Name", "Month", "Sales Qty", "Sales Amt"}) :
       \E l \in Schemas(RefLast.cols, {"State Name", "Month", "Sales Amt"}) :
          files = [current |-> Project(RefLast, c), last |-> Project(RefLast, l)]

OnDisk == [current : BOOLEAN, last : BOOLEAN]

Init ==
    /\ InitFiles
    /\ exists \in OnDisk
    /\ cache = {}
    /\ page = "unset"
    /\ widgets = "none"
    /\ pc = "idle"
    /\ df_current = EmptyFrame /\ df_last = EmptyFrame
    /\ view = BlankView
    /\ arg = Unused /\ ret = Unused

Next ==
    \/ \E click \in {"none", "current", "yoy"}, on_disk \in OnDisk : Rerun(click, on_disk)
    \/ CheckFiles
    \/ LoadData
    \/ CheckMonth
    \/ ShowHeader
    \/ RenderCurrent
    \/ RenderYoY

Spec == Init /\ [][Next]_vars

---------------------------------------------------------------------------
(* Claims about apply_filters (checked under SpecFilter) *)

FiltersPresent == \A i \in 1..Len(arg.filters) : HasCol(arg.df, arg.filters[i][1])

\* the indices of the rows of the input that satisfy every item of the dict
KeptIndices ==
    {i \in 1..Len(arg.df.rows) :
        \A f \in 1..Len(arg.filters) : arg.df.rows[i][arg.filters[f][1]] \in arg.filters[f][2]}

\* the k-th smallest member of a set of numbers
Nth(S, k) == CHOOSE i \in S : Cardinality({j \in S : j < i}) = k - 1

\* C1: when every column of the filters dict is a column of the frame,
\* apply_filters raises nothing and returns exactly the rows whose value in
\* every filtered column is in that column's permitted set, in their
\* original order; the empty dict returns the frame unchanged, and a dict
\* no row satisfies returns the empty frame.
C1_ApplyFiltersSelectsRows ==
    (pc = "return" /\ FiltersPresent) =>
        /\ ~ret.raised
        /\ ret.df.cols = arg.df.cols
        /\ Len(ret.df.rows) = Cardinality(KeptIndices)
        /\ \A k \in 1..Len(ret.df.rows) : ret.df.rows[k] = arg.df.rows[Nth(KeptIndices, k)]
        /\ (arg.filters = <<>> => ret.df = arg.df)
        /\ (KeptIndices = {} => ret.df.rows = <<>>)

\* two filtered columns, of which the second removes a row the first keeps
C1_Witness ==
    /\ pc = "return" /\ FiltersPresent
    /\ Len(arg.filters) = 2
    /\ Len(ret.df.rows) = 1
    /\ Len(select_isin(arg.df, arg.filters[1][1], arg.filters[1][2]).rows) = 2

---------------------------------------------------------------------------
(* Claims about the top-10 aggregation (checked under SpecAgg) *)

Aggregated == pc = "return" /\ DOMAIN ret = {"groups", "agg"}

RECURSIVE SumTotals(_)
SumTotals(agg) == IF agg = <<>> THEN 0 ELSE Head(agg).total + SumTotals(Tail(agg))

\* the index of the first row of the frame whose group cell is key
FirstSeen(key) ==
    CHOOSE i \in 1..Len(arg.df.rows) :
        /\ arg.df.rows[i][arg.group] = key
        /\ \A j \in 1..(i - 1) : arg.df.rows[j][arg.group] # key

\* C6: the per-group totals before truncation add up to the sum of the
\* metric column over all rows of the frame, also when rows have a missing
\* group value.
C6_GroupTotalsAddUp ==
    Aggregated => SumTotals(ret.groups) = SeriesSum(arg.df, arg.metric)

\* C7 as claimed: entries with equal totals are in first-encountered order,
\* and a group cut off by the truncation was first encountered after every
\* kept group of the same total.
C7_TiesInFirstEncounteredOrder ==
    Aggregated =>
        /\ \A i, j \in 1..Len(ret.agg) :
              (i < j /\ ret.agg[i].total = ret.agg[j].total)
                  => FirstSeen(ret.agg[i].key) < FirstSeen(ret.agg[j].key)
        /\ \A g \in Range(ret.groups) \ Range(ret.agg) : \A e \in Range(ret.agg) :
              g.total = e.total => FirstSeen(e.key) < FirstSeen(g.key)

\* C7 as amended: the result holds entries of the grouped sums, all of them
\* when there are at most 10, and a group cut off by the truncation has a
\* total no larger than any kept group's; which of several groups of equal
\* total comes first, or survives the cut, is not fixed by first encounter.
C7_TruncationKeepsLargest ==
    Aggregated =>
        /\ Range(ret.agg) \subseteq Range(ret.groups)
        /\ (Len(ret.groups) <= TopN => Range(ret.agg) = Range(ret.groups))
        /\ \A g \in Range(ret.groups) \ Range(ret.agg) : \A e \in Range(ret.agg) :
              g.total <= e.total

\* more than 10 groups, and a group that is cut off ties with a kept one
C7_Witness ==
    /\ Aggregated
    /\ Len(ret.groups) > TopN
    /\ \E g \in Range(ret.groups) \ Range(ret.agg) : \E e \in Range(ret.agg) :
          g.total = e.total

\* the distinct non-missing values of the group column
DistinctGroups == {c \in Range(Column(arg.df, arg.group)) : ~isna(c)}

\* C8: the result has at most min(10, number of distinct groups) entries,
\* holds each group at most once, and its totals never increase along it.
C8_TopNShape ==
    Aggregated =>
        /\ Len(ret.agg) <= TopN
        /\ Len(ret.agg) <= Cardinality(DistinctGroups)
        /\ \A i, j \in 1..Len(ret.agg) : i # j => ret.agg[i].key # ret.agg[j].key
        /\ \A i \in 1..(Len(ret.agg) - 1) : ret.agg[i].total >= ret.agg[i + 1].total

\* more than 10 distinct groups, truncated to exactly 10, a tie among them
C8_Witness ==
    /\ Aggregated
    /\ Cardinality(DistinctGroups) > TopN
    /\ Len(ret.agg) = TopN
    /\ \E i \in 1..(TopN - 1) : ret.agg[i].total = ret.agg[i + 1].total

---------------------------------------------------------------------------
(* Claims about the dashboard runs (checked under Spec) *)

\* the run has built the sidebar filters of its page
Built == pc \in {"done", "crashed"} /\ view.built

\* the rows of df at the indices in S, in their order
RowsAt(df, S) == [k \in 1..Cardinality(S) |-> df.rows[Nth(S, k)]]

\* the sum of the numbers in column col of df over the rows at the indices in S
RECURSIVE SumAt(_, _, _)
SumAt(df, col, S) ==
    IF S = {} THEN 0
    ELSE LET i == CHOOSE j \in S : TRUE
             c == df.rows[i][col]
         IN (IF c.k = "n" THEN c.n ELSE 0) + SumAt(df, col, S \ {i})

\* the indices of the rows of df that are allowed by every multiselect whose
\* selection does not contain "ALL"
Unrestricted(df) ==
    {i \in 1..Len(df.rows) :
        \A c \in DOMAIN view.selected :
            ALL \in view.selected[c] \/ df.rows[i][c] \in view.selected[c]}

\* C2: a column whose multiselect contains "ALL", alone or with explicit
\* values, is left out of the filters dict, and the filtered current table
\* is the one no restriction on that column gives.
C2_AllMeansUnrestricted ==
    Built =>
        /\ \A c \in DOMAIN view.selected :
              ALL \in view.selected[c]
                  => \A i \in 1..Len(view.filters) : view.filters[i][1] # c
        /\ view.filtered.rows = RowsAt(df_current, Unrestricted(df_current))

\* "ALL" selected together with an explicit value that a kept row does not have
C2_Witness ==
    /\ Built /\ pc = "done"
    /\ \E c \in DOMAIN view.selected :
          /\ ALL \in view.selected[c]
          /\ view.selected[c] # {ALL}
          /\ \E r \in Range(view.filtered.rows) : r[c] \notin view.selected[c]

YoYDone == pc = "done" /\ page = YoYPage

\* the indices of the rows of df that satisfy every item of the run's filters
Passing(df) ==
    {i \in 1..Len(df.rows) :
        \A f \in 1..Len(view.filters) : df.rows[i][view.filters[f][1]] \in view.filters[f][2]}

\* the indices of the rows of df_last whose Month prints as the selected month
InMonth ==
    {i \in 1..Len(df_last.rows) : strftime(df_last.rows[i]["Month"]) = view.selected_month}

C4_MissingMetricIsNotFatal ==
    /\ (pc \in {"done", "crashed"} /\ page = CurrentPage /\ ~HasCol(df_current, view.metric))
          => /\ view.exception = "none"
             /\ "metric not found" \in view.errors
             /\ {"table", "download"} \subseteq view.sections
    /\ (/\ pc \in {"done", "crashed"} /\ page = YoYPage
        /\ \A f \in 1..Len(view.filters) : HasCol(df_last, view.filters[f][1])
        /\ \E m \in {"Sales Qty", "Sales Amt"} : ~HasCol(df_current, m) \/ ~HasCol(df_last, m))
          => /\ view.exception = "none"
             /\ {"current data", "last FY data"} \subseteq view.sections

\* C5 as claimed: the multiselects are those of the columns neither
\* excluded nor reserved; the options of each are "ALL" and the sorted
\* distinct non-null values of the column, each of which stems from a cell
\* of the file that is not missing; no filters dict has a reserved column.
C5_FilterOptions ==
    Built =>
        /\ DOMAIN view.options =
              {c \in Range(df_current.cols) :
                  c \notin Reserved /\ (page = YoYPage => c \notin {"Month", "Sales Qty", "Sales Amt"})}
        /\ \A c \in DOMAIN view.options :
              LET opts == Tail(view.options[c])
              IN /\ Head(view.options[c]) = ALL
                 /\ Range(opts) = {x \in Range(Column(df_current, c)) : ~isna(x)}
                 /\ \A i \in 1..(Len(opts) - 1) : CellLess(opts[i], opts[i + 1])
                 /\ \A o \in Range(opts) :
                       \E i \in 1..Len(files.current.rows) :
                          LET raw == files.current.rows[i][c]
                          IN ~isna(raw) /\ (o = raw \/ o = Str(strip(astype_str(raw))))
        /\ \A f \in 1..Len(view.filters) : view.filters[f][1] \notin Reserved

\* C9: in a run in which a required file is missing, or the last-FY file
\* has no "Month" column, the script stops before anything of a page is
\* rendered: no header, no filters, no aggregation or comparison; with a
\* file missing no dataset is loaded either.
C9_HaltsBeforeRendering ==
    LET missing == ~exists.current \/ ~exists.last
        no_month == ~HasCol(files.last, "Month")
    IN (pc # "idle" /\ (missing \/ no_month)) =>
          /\ pc \in {"files", "load", "month", "stopped"}
          /\ view = [BlankView EXCEPT !.errors = view.errors, !.loaded = view.loaded]
          /\ missing => /\ pc \in {"files", "stopped"}
                        /\ ~view.loaded
                        /\ df_current = EmptyFrame /\ df_last = EmptyFrame

\* a run stopped for a missing file after an earlier run had loaded both
C9_Witness ==
    /\ pc = "stopped"
    /\ ~exists.current \/ ~exists.last
    /\ cache # {}
    /\ "files not found" \in view.errors

\* the Month cells of the input files that are no date
BadMonths == {NaN, TxtMonth13}

BadRows == {i \in 1..Len(files.last.rows) : files.last.rows[i]["Month"] \in BadMonths}

\* C10: a last-FY row whose Month is no date stays in the table, with a
\* null Month; it adds no month to the month options, is in no month's
\* restriction (none either when no month can be selected), and so adds
\* nothing to a last-FY total.
C10_BadMonthNeverCounts ==
    YoYDone =>
        /\ Len(df_last.rows) = Len(files.last.rows)
        /\ \A i \in BadRows : isna(df_last.rows[i]["Month"])
        /\ \A k \in 1..Len(view.month_opts) :
              /\ view.month_opts[k].k = "s"
              /\ \E i \in (1..Len(df_last.rows)) \ BadRows :
                    strftime(df_last.rows[i]["Month"]) = view.month_opts[k]
        /\ \A r \in Range(view.filtered_last.rows) : ~isna(r["Month"])
        /\ Len(view.filtered_last.rows) = Cardinality((Passing(df_last) \cap InMonth) \ BadRows)
        /\ view.last_qty = SumAt(df_last, "Sales Qty", (Passing(df_last) \cap InMonth) \ BadRows)
        /\ view.last_amt = SumAt(df_last, "Sales Amt", (Passing(df_last) \cap InMonth) \ BadRows)

\* a row with a bad Month that passes the filters, beside a counted row
C10_Witness ==
    /\ YoYDone
    /\ BadRows \cap Passing(df_last) # {}
    /\ view.last_qty > 0

============================================================================
